---- MODULE Spec2Model ----
(***************************************************************************)
(* Model of main.py: the title gate, the file pick, the lock wait, the     *)
(* derivation of names and paths, and the copy / encode / copy pipeline    *)
(* of run().                                                               *)
(*                                                                         *)
(* Text is a sequence of one-character strings.  A file on disk is its     *)
(* path mapped to a content tag; all artifact paths of one run share the   *)
(* base name, so a path is <<directory, extension>>.                       *)
(***************************************************************************)
EXTENDS Integers, Sequences, FiniteSets, TLC

\* ------------------------------------------------------------------------
\* Bounds of the model
\* ------------------------------------------------------------------------
\* longest run of separator characters between year and month in the titles
\* typed into the dialog
MaxSepRun == 2

\* longest of the short titles typed into the dialog
MaxTitleLen == 4

\* ------------------------------------------------------------------------
\* Text helpers (Python str / re primitives)
\* ------------------------------------------------------------------------
\* characters matched by \s and removed by str.strip()
WS == {" ", "\t", "\n"}

\* characters matched by \d
Digit == {"0", "1", "2", "3", "4", "5", "6", "7", "8", "9"}

\* the character class [-/\s\\] of both date patterns
DateSep == {"-", "/", "\\"} \cup WS

\* s[i..] (1-based), empty when i is past the end
From(s, i) == SubSeq(s, i, Len(s))

\* length of the longest run of characters of C that starts at position i
RECURSIVE RunLen(_, _, _)
RunLen(s, i, C) ==
  IF i <= Len(s) /\ s[i] \in C THEN 1 + RunLen(s, i + 1, C) ELSE 0

\* the n characters from position i exist and all belong to C
AllIn(s, i, n, C) ==
  /\ i + n - 1 <= Len(s)
  /\ \A k \in i..(i + n - 1) : s[k] \in C

\* str.strip(): leading and trailing whitespace removed
RECURSIVE RStrip(_)
RStrip(s) ==
  IF s # <<>> /\ s[Len(s)] \in WS THEN RStrip(SubSeq(s, 1, Len(s) - 1)) ELSE s

Strip(s) == RStrip(From(s, RunLen(s, 1, WS) + 1))

CollapseWS_none(s) == s

\* re.sub(r"\s+", " ", s): every maximal whitespace run becomes one space
RECURSIVE CollapseWS(_)
CollapseWS(s) ==
  IF s = <<>> THEN <<>>
  ELSE IF Head(s) \in WS
       THEN <<" ">> \o CollapseWS(From(s, RunLen(s, 1, WS) + 1))
       ELSE <<Head(s)>> \o CollapseWS(Tail(s))

zfill2_none(s) == s

\* str.zfill(2) of a one- or two-digit string
zfill2(s) == IF Len(s) < 2 THEN <<"0">> \o s ELSE s

\* str.splitlines as done by iterating a text file and rstrip("\n"):
\* the pieces between newlines, no empty piece after a final newline
RECURSIVE SplitLines(_)
SplitLines(s) ==
  IF s = <<>> THEN <<>>
  ELSE LET n == RunLen(s, 1, {c \in {s[k] : k \in 1..Len(s)} : c # "\n"})
       IN <<SubSeq(s, 1, n)>> \o SplitLines(From(s, n + 2))

\* ------------------------------------------------------------------------
\* NameDeriver
\* ------------------------------------------------------------------------
invalid_chars == {"<", ">", ":", "\"", "/", "\\", "|", "?", "*"}

get_safe_filename(text) ==
  IF text = <<>> THEN <<>>
  ELSE LET sanitized == [i \in 1..Len(text) |->
                           IF text[i] \in invalid_chars THEN " " ELSE text[i]]
       IN Strip(CollapseWS(sanitized))

\* ^\s*(\d{4})[-/\s\\]+(\d{1,2})[-/\s\\]+(\d{1,2})(\s.*|$)
\* The character classes of neighbouring parts are disjoint, so the match,
\* when there is one, takes the maximal run for every part.
DateMatch(text) ==
  LET y0 == RunLen(text, 1, WS) + 1
      ny == RunLen(text, y0, Digit)
      s1 == RunLen(text, y0 + ny, DateSep)
      m0 == y0 + ny + s1
      nm == RunLen(text, m0, Digit)
      s2 == RunLen(text, m0 + nm, DateSep)
      d0 == m0 + nm + s2
      nd == RunLen(text, d0, Digit)
      r0 == d0 + nd
      \* \s.* : one whitespace character, then everything up to a newline
      rest == IF r0 > Len(text) THEN <<>>
              ELSE SubSeq(text, r0,
                          r0 + RunLen(text, r0 + 1,
                                      {c \in {text[k] : k \in 1..Len(text)} : c # "\n"}))
  IN [ok   |-> /\ ny = 4 /\ s1 >= 1 /\ nm \in {1, 2} /\ s2 >= 1 /\ nd \in {1, 2}
               /\ (r0 > Len(text) \/ text[r0] \in WS),
      y    |-> SubSeq(text, y0, y0 + ny - 1),
      mth  |-> SubSeq(text, m0, m0 + nm - 1),
      d    |-> SubSeq(text, d0, d0 + nd - 1),
      rest |-> rest]

normalize_leading_date_in_title(text) ==
  IF text = <<>> THEN <<>>
  ELSE LET m == DateMatch(text)
       IN IF ~m.ok THEN text
          ELSE m.y \o zfill2(m.mth) \o zfill2(m.d) \o m.rest

\* ^\s*(\d{8}|\d{4}[-/\s\\]?\d{2}[-/\s\\]?\d{2})
title_starts_with_date(clean_title) ==
  LET a == RunLen(clean_title, 1, WS) + 1
  IN \/ AllIn(clean_title, a, 8, Digit)
     \/ \E e1 \in {0, 1}, e2 \in {0, 1} :
          /\ AllIn(clean_title, a, 4, Digit)
          /\ AllIn(clean_title, a + 4, e1, DateSep)
          /\ AllIn(clean_title, a + 4 + e1, 2, Digit)
          /\ AllIn(clean_title, a + 6 + e1, e2, DateSep)
          /\ AllIn(clean_title, a + 6 + e1 + e2, 2, Digit)

\* month and day without the leading zero
FormatYmd_unpadded(date) ==
  << <<"0", "1", "2", "3", "4", "5", "6", "7", "8", "9">>[((date.y \div 1000) % 10) + 1],
     <<"0", "1", "2", "3", "4", "5", "6", "7", "8", "9">>[((date.y \div 100) % 10) + 1],
     <<"0", "1", "2", "3", "4", "5", "6", "7", "8", "9">>[((date.y \div 10) % 10) + 1],
     <<"0", "1", "2", "3", "4", "5", "6", "7", "8", "9">>[(date.y % 10) + 1] >>
    \o (IF date.m < 10 THEN <<>> ELSE <<"1">>)
    \o << <<"0", "1", "2", "3", "4", "5", "6", "7", "8", "9">>[(date.m % 10) + 1] >>
    \o (IF date.d < 10 THEN <<>>
        ELSE << <<"0", "1", "2", "3", "4", "5", "6", "7", "8", "9">>[(date.d \div 10) + 1] >>)
    \o << <<"0", "1", "2", "3", "4", "5", "6", "7", "8", "9">>[(date.d % 10) + 1] >>

\* one decimal digit as a character
DigitChar(n) == <<"0", "1", "2", "3", "4", "5", "6", "7", "8", "9">>[n + 1]

\* f"{now:%Y%m%d}" for a date [y, m, d]
FormatYmd(date) ==
  << DigitChar((date.y \div 1000) % 10), DigitChar((date.y \div 100) % 10),
     DigitChar((date.y \div 10) % 10),   DigitChar(date.y % 10),
     DigitChar(date.m \div 10),          DigitChar(date.m % 10),
     DigitChar(date.d \div 10),          DigitChar(date.d % 10) >>

\* base_name of Step 4
DeriveBaseName(clean_title, now) ==
  LET safe_title == get_safe_filename(clean_title)
  IN IF title_starts_with_date(clean_title)
     THEN safe_title
     ELSE FormatYmd(now) \o <<" ">> \o safe_title

\* ------------------------------------------------------------------------
\* Inputs
\* ------------------------------------------------------------------------
None == "none"            \* Python None, for values that are strings
NoPath == <<>>            \* Python None, for a path
NoResult == [closed |-> TRUE]   \* Python None, for the dialog result
NoCrash == [at |-> "", why |-> ""]

\* the title file: absent, or there with its text
Missing == [there |-> FALSE, text |-> <<>>]
File(text) == [there |-> TRUE, text |-> text]

\* contents of the title file an editor may leave behind
OneLineFile == File(<<"T", "\n", " ", "\n">>)
MessyFile == File(<<" ", "2", "0", "2", "4", "-", "1", "-", "5", " ", "T", " ",
                    "\n", "\n", "\t", "A", "b", "\n", "z", "z", "\n">>)
CanonFile == File(<<"T", " ", "a", "\n", "A", "b", "\n">>)
TitleFiles == {Missing, OneLineFile, MessyFile, CanonFile}

\* what the human may type over the proposed title and artist
BlankEdits == {[title |-> <<" ">>, artist |-> <<" ", "\t">>]}

\* titles typed into the dialog that begin with a date: a year, a run of
\* separators, a month, a separator, a day, and what follows the day
SepChars == {"-", "/", " ", "\\"}
SepRuns == UNION {[1..k -> SepChars] : k \in 1..MaxSepRun}
Months == {<<"3">>, <<"1", "2">>}
Days == {<<"5">>, <<"0", "5">>}
Tails == {<<>>, <<" ", "T">>, <<",", "T">>, <<"T">>, <<"\t", ":", "a">>}
DateTitles ==
  {<<"2", "0", "2", "4">> \o s1 \o m \o <<s2>> \o d \o tail :
     s1 \in SepRuns, m \in Months, s2 \in SepChars, d \in Days, tail \in Tails}

\* titles typed into the dialog that begin with no such date
PlainTitles ==
  {<<"T", " ", "a">>,
   <<"T", ":", " ", "\"", "a", "\"">>,
   <<"2", "0", "2", "4">>,
   <<"2", "0", "2", "4", "0", "3", "0", "5", " ", "T">>,
   <<"2", "0", "2", "4", "-", "1", "2", "3", "-", "5">>,
   <<"2", "0", "2", "4", "0", "3", "0", " ", "T">>,
   <<"a", "/", "b", "\\", "|", "?", "*", "<", "c", ">">>}

\* every title of at most MaxTitleLen characters over a letter, a digit, two
\* kinds of whitespace and a reserved character
ShortChars == {"a", "2", " ", "\t", ":"}
ShortTitles == UNION {[1..k -> ShortChars] : k \in 0..MaxTitleLen}

TypedTitles == DateTitles \cup PlainTitles \cup ShortTitles

\* the run dates
Date1 == [y |-> 2025, m |-> 6, d |-> 1]
Date2 == [y |-> 2024, m |-> 12, d |-> 31]

\* ------------------------------------------------------------------------
\* Filesystem
\* ------------------------------------------------------------------------
\* suffixes of the "Video Files" filter that are followed
Suffixes == {"mkv", "mp4"}

WORK_DIR == "WORK"
DEST_ORIG_VIDEO == "ORIG"     \* the dated folder below it
DEST_COMP_VIDEO == "COMP"
DEST_AUDIO == "AUDIO"
VIDEO_SOURCE_DIR == "SRC"

\* <<directory, extension>> of a file named after the base name of the run;
\* in VIDEO_SOURCE_DIR, the recording
ArtifactPaths ==
  ({WORK_DIR} \X ({"opus", "mp4"} \cup Suffixes))
    \cup ({DEST_ORIG_VIDEO} \X Suffixes)
    \cup {<<DEST_AUDIO, "opus">>, <<DEST_COMP_VIDEO, "mp4">>}

RecordingPaths == {VIDEO_SOURCE_DIR} \X Suffixes

Paths == ArtifactPaths \cup RecordingPaths

\* what a path holds: nothing, a file from before the run, the recording,
\* an encoder's output, an encoder's truncated output
Content == {"absent", "old", "rec", "opus", "h265", "part"}

\* what the file picker can return besides None
Pickable == RecordingPaths \cup ({WORK_DIR} \X Suffixes)

VARIABLES
  pc,              \* position of run()
  debug_program,   \* --debug-program
  cli_skip_audio,  \* --skip-audio
  today,           \* the date datetime.now() returns
  titleFile,       \* TITLE_FILE_PATH: Missing or its text
  dlg,             \* result of show_title_confirmation_dialog
  clean_title,
  album_artist,
  do_skip_audio,
  do_skip_video,
  latest_video,    \* the selected path, NoPath before
  openErr,         \* what open(latest_video, "rb") raises now
  base_name,
  fs,              \* Paths -> Content
  enc,             \* outcome of each encoder invocation of the run
  copies,          \* the shutil.copy2 calls made by the run
  events,          \* provider calls and gate passages so far
  titleRead,       \* the title file as read when the gate let the run pass
  fs0,             \* fs when the run started
  crash            \* the uncaught exception that ended the run

vars == <<pc, debug_program, cli_skip_audio, today, titleFile, dlg, clean_title,
          album_artist, do_skip_audio, do_skip_video, latest_video, openErr,
          base_name, fs, enc, copies, events, titleRead, fs0, crash>>

exists_never(p) == FALSE

\* Path.exists()
exists(p) == fs[p] # "absent"

is_file_locked_never(file_path) == FALSE

\* is_file_locked: any OSError of open() counts as locked
is_file_locked(file_path) == openErr # None

\* latest_video.suffix
suffix == latest_video[2]

audio_out_path == <<WORK_DIR, "opus">>
video_out_path == <<WORK_DIR, "mp4">>
final_orig_path == <<DEST_ORIG_VIDEO, suffix>>
work_dir_orig_path == <<WORK_DIR, suffix>>
final_audio_path == <<DEST_AUDIO, "opus">>
final_comp_path == <<DEST_COMP_VIDEO, "mp4">>

\* ------------------------------------------------------------------------
\* Step 1: the title gate
\* ------------------------------------------------------------------------
valid_lines_all(text) == SplitLines(text)

\* valid_lines: the lines of the file that are not blank
valid_lines(text) == SelectSeq(SplitLines(text), LAMBDA ln : Strip(ln) # <<>>)

\* the file exists and len(valid_lines) >= 2
TitleReady == titleFile.there /\ Len(valid_lines(titleFile.text)) >= 2

\* _DialogAPI.submit
submit(title, artist, skip_audio, skip_video) ==
  [ok |-> TRUE, title |-> Strip(title), artist |-> Strip(artist),
   skip_audio |-> skip_audio, skip_video |-> skip_video]

\* _DialogAPI.cancel
cancel == [ok |-> FALSE]

\* dict.get(key, default)
Get(d, key, default) == IF key \in DOMAIN d THEN d[key] ELSE default

DialogRejected_closed_only(d) == d = NoResult

\* not dlg or not dlg.get("ok")
DialogRejected(d) == IF d = NoResult THEN TRUE ELSE ~Get(d, "ok", FALSE)

effective_skip_audio_dialog_only(d, cli) == Get(d, "skip_audio", FALSE)

\* bool(dlg.get("skip_audio")) or cli_skip_audio
effective_skip_audio(d, cli) == Get(d, "skip_audio", FALSE) \/ cli

TitleFileText_one_newline(title, artist) == title \o <<"\n">> \o artist

\* the text written back to the title file
TitleFileText(title, artist) == title \o <<"\n">> \o artist \o <<"\n">>

\* one turn of the loop that finds no two valid lines and sleeps
PollTitle ==
  /\ pc = "title_wait"
  /\ ~TitleReady
  /\ UNCHANGED vars

\* the editor outside the program saves the title file
EditorSaves ==
  /\ pc = "title_wait"
  /\ ~TitleReady
  /\ \E f \in TitleFiles \ {Missing, titleFile} : titleFile' = f
  /\ UNCHANGED <<pc, debug_program, cli_skip_audio, today, dlg, clean_title,
                 album_artist, do_skip_audio, do_skip_video, latest_video,
                 openErr, base_name, fs, enc, copies, events, titleRead, fs0,
                 crash>>

\* the turn of the loop that finds two valid lines: the dialog is shown with
\* them and returns what the human did
ShowDialog ==
  /\ pc = "title_wait"
  /\ TitleReady
  /\ LET title_text == Strip(valid_lines(titleFile.text)[1])
         artist_text == Strip(valid_lines(titleFile.text)[2])
         typed == {[title |-> title_text, artist |-> artist_text]} \cup BlankEdits
     IN dlg' \in {NoResult, cancel}
                   \cup {submit(e.title, e.artist, sa, sv) :
                           e \in typed, sa \in BOOLEAN, sv \in BOOLEAN}
  /\ titleRead' = titleFile
  /\ events' = events \cup {"dialog"}
  /\ pc' = "dialog_returned"
  /\ UNCHANGED <<debug_program, cli_skip_audio, today, titleFile, clean_title,
                 album_artist, do_skip_audio, do_skip_video, latest_video,
                 openErr, base_name, fs, enc, copies, fs0, crash>>

\* the dialog was cancelled or closed: sys.exit(0)
DialogCancelled ==
  /\ pc = "dialog_returned"
  /\ DialogRejected(dlg)
  /\ pc' = "exit_cancel"
  /\ UNCHANGED <<debug_program, cli_skip_audio, today, titleFile, dlg,
                 clean_title, album_artist, do_skip_audio, do_skip_video,
                 latest_video, openErr, base_name, fs, enc, copies, events,
                 titleRead, fs0, crash>>

\* the dialog was accepted: the record and the flags are taken over and the
\* title file is rewritten
ConfirmTitle ==
  /\ pc = "dialog_returned"
  /\ ~DialogRejected(dlg)
  /\ clean_title' = normalize_leading_date_in_title(Strip(Get(dlg, "title", <<>>)))
  /\ album_artist' = Strip(Get(dlg, "artist", <<>>))
  /\ do_skip_audio' = effective_skip_audio(dlg, cli_skip_audio)
  /\ do_skip_video' = Get(dlg, "skip_video", FALSE)
  /\ titleFile' = File(TitleFileText(clean_title', album_artist'))
  /\ events' = events \cup {"confirmed"}
  /\ pc' = "pick"
  /\ UNCHANGED <<debug_program, cli_skip_audio, today, dlg, latest_video, openErr,
                 base_name, fs, enc, copies, titleRead, fs0, crash>>

\* ------------------------------------------------------------------------
\* Step 2: the file picker
\* ------------------------------------------------------------------------
\* what open() raises for a path: ENOENT when there is no file; otherwise
\* nothing, a sharing violation while the recorder holds it, or EACCES
OpenErrors(p) ==
  IF fs[p] = "absent" THEN {"enoent"} ELSE {None, "sharing", "eacces"}

SelectVideo ==
  /\ pc = "pick"
  /\ events' = events \cup {"picker"}
  /\ \/ /\ pc' = "exit_pick"
        /\ UNCHANGED <<latest_video, openErr>>
     \/ /\ \E p \in Pickable :
             /\ latest_video' = p
             /\ openErr' \in OpenErrors(p)
        /\ pc' = "lock_wait"
  /\ UNCHANGED <<debug_program, cli_skip_audio, today, titleFile, dlg,
                 clean_title, album_artist, do_skip_audio, do_skip_video,
                 base_name, fs, enc, copies, titleRead, fs0, crash>>

\* ------------------------------------------------------------------------
\* Step 3: the lock wait
\* ------------------------------------------------------------------------
\* one turn of the loop that finds the file locked and sleeps
LockSleep ==
  /\ pc = "lock_wait"
  /\ is_file_locked(latest_video)
  /\ UNCHANGED vars

\* the recorder outside the program closes the recording
RecorderStops ==
  /\ pc = "lock_wait"
  /\ openErr = "sharing"
  /\ openErr' = None
  /\ UNCHANGED <<pc, debug_program, cli_skip_audio, today, titleFile, dlg,
                 clean_title, album_artist, do_skip_audio, do_skip_video,
                 latest_video, base_name, fs, enc, copies, events, titleRead,
                 fs0, crash>>

\* the check that finds the file not locked, and Step 4: names and paths
DefineNames ==
  /\ pc = "lock_wait"
  /\ ~is_file_locked(latest_video)
  /\ base_name' = DeriveBaseName(clean_title, today)
  /\ events' = events \cup {"unlocked"}
  /\ pc' = "copy_work"
  /\ UNCHANGED <<debug_program, cli_skip_audio, today, titleFile, dlg,
                 clean_title, album_artist, do_skip_audio, do_skip_video,
                 latest_video, openErr, fs, enc, copies, titleRead, fs0, crash>>

\* ------------------------------------------------------------------------
\* Steps 4b, 5 and 6: copy, encode, copy
\* ------------------------------------------------------------------------
\* an exception nothing catches ends the run
Raise(why) ==
  /\ pc' = "crashed"
  /\ crash' = [at |-> pc, why |-> why]

\* a move in place of the copy
copy2_move(src, dst, next) ==
  /\ copies' = copies \cup {<<src, dst>>}
  /\ IF fs[src] = "absent"
     THEN Raise("FileNotFoundError") /\ UNCHANGED fs
     ELSE /\ fs' = [fs EXCEPT ![dst] = fs[src], ![src] = "absent"]
          /\ pc' = next
          /\ UNCHANGED crash

\* shutil.copy2(src, dst); the run then goes on at next
copy2(src, dst, next) ==
  /\ copies' = copies \cup {<<src, dst>>}
  /\ IF fs[src] = "absent"
     THEN Raise("FileNotFoundError") /\ UNCHANGED fs
     ELSE IF src = dst
     THEN Raise("SameFileError") /\ UNCHANGED fs
     ELSE /\ fs' = [fs EXCEPT ![dst] = fs[src]]
          /\ pc' = next
          /\ UNCHANGED crash

\* nothing to do at this step
Skip(next) ==
  /\ pc' = next
  /\ UNCHANGED <<fs, copies, enc, crash>>

\* how subprocess.run(["ffmpeg", ...], check=False) can end: exit 0 with the
\* output written, a non-zero exit with no output or with a truncated one,
\* or no ffmpeg on PATH
FfmpegOutcomes == {"ok", "fail", "partial", "missing"}

\* an encoder that removes its input when it has written the output
ffmpeg_consumes_input(kind, src, out, made, next) ==
  \E outcome \in FfmpegOutcomes :
    /\ enc' = [enc EXCEPT ![kind] = outcome]
    /\ IF outcome = "missing"
       THEN Raise("FileNotFoundError") /\ UNCHANGED fs
       ELSE /\ fs' = IF fs[src] = "absent" \/ outcome = "fail" THEN fs
                     ELSE [fs EXCEPT ![out] = made, ![src] = "absent"]
            /\ pc' = next
            /\ UNCHANGED crash

\* subprocess.run(["ffmpeg", "-y", "-i", src, ..., out], check=False)
ffmpeg(kind, src, out, made, next) ==
  \E outcome \in FfmpegOutcomes :
    /\ enc' = [enc EXCEPT ![kind] = outcome]
    /\ IF outcome = "missing"
       THEN Raise("FileNotFoundError") /\ UNCHANGED fs
       ELSE /\ fs' = [fs EXCEPT ![out] =
                        IF fs[src] = "absent" \/ outcome = "fail" THEN @
                        ELSE IF outcome = "partial" THEN "part" ELSE made]
            /\ pc' = next
            /\ UNCHANGED crash

RunVars == <<debug_program, cli_skip_audio, today, titleFile, dlg, clean_title,
             album_artist, do_skip_audio, do_skip_video, latest_video, openErr,
             base_name, events, titleRead, fs0>>

copy_enabled_always == TRUE

\* if not debug_program: the copies are made
copy_enabled == ~debug_program

\* Step 4b, first copy: the original into the work folder
CopyOriginalToWork ==
  /\ pc = "copy_work"
  /\ IF copy_enabled /\ ~exists(work_dir_orig_path)
     THEN copy2(latest_video, work_dir_orig_path, "copy_final") /\ UNCHANGED enc
     ELSE Skip("copy_final")
  /\ UNCHANGED RunVars

\* Step 4b, second copy: the original into the dated folder
CopyOriginalToFinal ==
  /\ pc = "copy_final"
  /\ IF copy_enabled /\ ~exists(final_orig_path)
     THEN copy2(latest_video, final_orig_path, "audio") /\ UNCHANGED enc
     ELSE Skip("audio")
  /\ UNCHANGED RunVars

\* Step 5a
ExtractAudio ==
  /\ pc = "audio"
  /\ IF ~do_skip_audio /\ ~exists(audio_out_path)
     THEN ffmpeg("audio", latest_video, audio_out_path, "opus", "video")
          /\ UNCHANGED copies
     ELSE Skip("video")
  /\ UNCHANGED RunVars

\* Step 5b without the look at the target
ReencodeVideo_unguarded ==
  /\ pc = "video"
  /\ IF ~do_skip_video
     THEN ffmpeg("video", latest_video, video_out_path, "h265", "copy_audio")
          /\ UNCHANGED copies
     ELSE Skip("copy_audio")
  /\ UNCHANGED RunVars

\* Step 5b
ReencodeVideo ==
  /\ pc = "video"
  /\ IF ~do_skip_video /\ ~exists(video_out_path)
     THEN ffmpeg("video", latest_video, video_out_path, "h265", "copy_audio")
          /\ UNCHANGED copies
     ELSE Skip("copy_audio")
  /\ UNCHANGED RunVars

\* Step 6b
CopyAudio ==
  /\ pc = "copy_audio"
  /\ IF copy_enabled /\ ~do_skip_audio /\ ~exists(final_audio_path)
     THEN copy2(audio_out_path, final_audio_path, "copy_video") /\ UNCHANGED enc
     ELSE Skip("copy_video")
  /\ UNCHANGED RunVars

\* Step 6c and the end of run()
CopyCompressedVideo ==
  /\ pc = "copy_video"
  /\ IF copy_enabled /\ ~do_skip_video /\ ~exists(final_comp_path)
     THEN copy2(video_out_path, final_comp_path, "done") /\ UNCHANGED enc
     ELSE Skip("done")
  /\ UNCHANGED RunVars

\* ------------------------------------------------------------------------
\* The run
\* ------------------------------------------------------------------------
\* the filesystems a run can start on: the recordings are there, and every
\* artifact path is free or holds a file from before
StartFilesystems ==
  {f \in [Paths -> {"absent", "old", "rec"}] :
     /\ \A p \in RecordingPaths : f[p] = "rec"
     /\ \A p \in ArtifactPaths : f[p] \in {"absent", "old"}}

InitRun ==
  /\ pc = "title_wait"
  /\ dlg = NoResult
  /\ clean_title = <<>>
  /\ album_artist = <<>>
  /\ do_skip_audio = FALSE
  /\ do_skip_video = FALSE
  /\ latest_video = NoPath
  /\ openErr = None
  /\ base_name = <<>>
  /\ enc = [k \in {"audio", "video"} |-> "not_run"]
  /\ copies = {}
  /\ events = {}
  /\ titleRead = Missing
  /\ crash = NoCrash
  /\ fs0 = fs

Init ==
  /\ debug_program \in BOOLEAN
  /\ cli_skip_audio \in BOOLEAN
  /\ today = Date1
  /\ titleFile \in TitleFiles
  /\ fs \in StartFilesystems
  /\ InitRun

Next ==
  \/ PollTitle
  \/ EditorSaves
  \/ ShowDialog
  \/ DialogCancelled
  \/ ConfirmTitle
  \/ SelectVideo
  \/ LockSleep
  \/ RecorderStops
  \/ DefineNames
  \/ CopyOriginalToWork
  \/ CopyOriginalToFinal
  \/ ExtractAudio
  \/ ReencodeVideo
  \/ CopyAudio
  \/ CopyCompressedVideo

Spec == Init /\ [][Next]_vars

\* The naming of one run for many titles: the dialog has returned a typed
\* title; the run confirms it, picks a file, waits for it and derives the
\* base name.
InitNames ==
  /\ debug_program = TRUE
  /\ cli_skip_audio = FALSE
  /\ today \in {Date1, Date2}
  /\ titleFile = CanonFile
  /\ titleRead = CanonFile
  /\ fs = [p \in Paths |-> IF p \in RecordingPaths THEN "rec" ELSE "absent"]
  /\ fs0 = fs
  /\ pc = "dialog_returned"
  /\ dlg \in {cancel}
               \cup {submit(t, <<"A", "b">>, FALSE, FALSE) : t \in TypedTitles}
  /\ events = {"dialog"}
  /\ clean_title = <<>>
  /\ album_artist = <<>>
  /\ do_skip_audio = FALSE
  /\ do_skip_video = FALSE
  /\ latest_video = NoPath
  /\ openErr = None
  /\ base_name = <<>>
  /\ enc = [k \in {"audio", "video"} |-> "not_run"]
  /\ copies = {}
  /\ crash = NoCrash

NextNames ==
  \/ DialogCancelled
  \/ ConfirmTitle
  \/ SelectVideo
  \/ LockSleep
  \/ RecorderStops
  \/ DefineNames

NameSpec == InitNames /\ [][NextNames]_vars

\* ------------------------------------------------------------------------
\* A run that is ended and started again
\* ------------------------------------------------------------------------
\* no artifact is there yet
FreshFs == [p \in Paths |-> IF p \in RecordingPaths THEN "rec" ELSE "absent"]

PipelineSteps ==
  {"copy_work", "copy_final", "audio", "video", "copy_audio", "copy_video"}

\* the process has not been ended before
NeverKilled == events \cap {"killed", "killed_audio", "killed_video"} = {}

\* the next run with the same title, date, source and flags is at Step 4b: it
\* has made no copy and invoked no encoder, and finds the files as they are
Restart(mark) ==
  /\ events' = events \cup {mark}
  /\ pc' = "copy_work"
  /\ enc' = [k \in {"audio", "video"} |-> "not_run"]
  /\ copies' = {}
  /\ fs0' = fs'
  /\ UNCHANGED <<debug_program, cli_skip_audio, today, titleFile, dlg,
                 clean_title, album_artist, do_skip_audio, do_skip_video,
                 latest_video, openErr, base_name, titleRead, crash>>

\* the process is ended between two steps of the pipeline
KillBetweenSteps ==
  /\ pc \in PipelineSteps
  /\ NeverKilled
  /\ UNCHANGED fs
  /\ Restart("killed")

\* the process is ended while the audio encoder has written a part of its
\* output
KillDuringAudio ==
  /\ pc = "audio"
  /\ NeverKilled
  /\ ~do_skip_audio /\ ~exists(audio_out_path)
  /\ fs' = [fs EXCEPT ![audio_out_path] = "part"]
  /\ Restart("killed_audio")

\* the process is ended while the video encoder has written a part of its
\* output
KillDuringVideo ==
  /\ pc = "video"
  /\ NeverKilled
  /\ ~do_skip_video /\ ~exists(video_out_path)
  /\ fs' = [fs EXCEPT ![video_out_path] = "part"]
  /\ Restart("killed_video")

\* a run at Step 4b: the title "T a" was confirmed, a recording was picked
\* and found not locked
InitRerun ==
  /\ debug_program \in BOOLEAN
  /\ cli_skip_audio = FALSE
  /\ today = Date1
  /\ titleFile = CanonFile
  /\ titleRead = CanonFile
  /\ do_skip_audio \in BOOLEAN
  /\ do_skip_video \in BOOLEAN
  /\ dlg = submit(<<"T", " ", "a">>, <<"A", "b">>, do_skip_audio, do_skip_video)
  /\ clean_title = <<"T", " ", "a">>
  /\ album_artist = <<"A", "b">>
  /\ latest_video \in RecordingPaths
  /\ openErr = None
  /\ base_name = DeriveBaseName(clean_title, today)
  /\ fs = FreshFs
  /\ fs0 = fs
  /\ pc = "copy_work"
  /\ enc = [k \in {"audio", "video"} |-> "not_run"]
  /\ copies = {}
  /\ events = {"dialog", "confirmed", "picker", "unlocked"}
  /\ crash = NoCrash

NextRerun ==
  \/ KillBetweenSteps
  \/ KillDuringAudio
  \/ KillDuringVideo
  \/ CopyOriginalToWork
  \/ CopyOriginalToFinal
  \/ ExtractAudio
  \/ ReencodeVideo
  \/ CopyAudio
  \/ CopyCompressedVideo

RerunSpec == InitRerun /\ [][NextRerun]_vars

\* Steps 4b to 6 on the files f when nothing is in their way: every encoder
\* succeeds and the run is not ended
StepCopy(f, on, src, dst) ==
  IF on /\ f[dst] = "absent" THEN [f EXCEPT ![dst] = f[src]] ELSE f

StepEncode(f, on, out, made) ==
  IF on /\ f[out] = "absent" THEN [f EXCEPT ![out] = made] ELSE f

UninterruptedRun(f) ==
  LET f1 == StepCopy(f, copy_enabled, latest_video, work_dir_orig_path)
      f2 == StepCopy(f1, copy_enabled, latest_video, final_orig_path)
      f3 == StepEncode(f2, ~do_skip_audio, audio_out_path, "opus")
      f4 == StepEncode(f3, ~do_skip_video, video_out_path, "h265")
      f5 == StepCopy(f4, copy_enabled /\ ~do_skip_audio, audio_out_path,
                     final_audio_path)
  IN StepCopy(f5, copy_enabled /\ ~do_skip_video, video_out_path,
              final_comp_path)

\* ------------------------------------------------------------------------
\* The waits under fair scheduling
\* ------------------------------------------------------------------------
\* a title file with a blank line between its two lines
GapFile == File(<<"T", "\n", "\n", "A", "\n">>)

\* the title files of the fair runs
FairTitleFiles == {Missing, OneLineFile, GapFile}

\* the editor outside the program saves or removes the title file
EditorRewrites ==
  /\ pc = "title_wait"
  /\ \E f \in FairTitleFiles \ {titleFile} : titleFile' = f
  /\ UNCHANGED <<pc, debug_program, cli_skip_audio, today, dlg, clean_title,
                 album_artist, do_skip_audio, do_skip_video, latest_video,
                 openErr, base_name, fs, enc, copies, events, titleRead, fs0,
                 crash>>

\* the recorder outside the program opens the recording again
RecorderResumes ==
  /\ pc = "lock_wait"
  /\ openErr = None
  /\ openErr' = "sharing"
  /\ UNCHANGED <<pc, debug_program, cli_skip_audio, today, titleFile, dlg,
                 clean_title, album_artist, do_skip_audio, do_skip_video,
                 latest_video, base_name, fs, enc, copies, events, titleRead,
                 fs0, crash>>

InitFair ==
  /\ debug_program \in BOOLEAN
  /\ cli_skip_audio = FALSE
  /\ today = Date1
  /\ titleFile \in FairTitleFiles
  /\ fs = FreshFs
  /\ InitRun

\* the steps of the program itself
ProgramStep ==
  \/ ShowDialog
  \/ DialogCancelled
  \/ ConfirmTitle
  \/ SelectVideo
  \/ DefineNames
  \/ CopyOriginalToWork
  \/ CopyOriginalToFinal
  \/ ExtractAudio
  \/ ReencodeVideo
  \/ CopyAudio
  \/ CopyCompressedVideo

NextFair ==
  \/ PollTitle
  \/ EditorRewrites
  \/ LockSleep
  \/ RecorderStops
  \/ RecorderResumes
  \/ ProgramStep

\* the program is a single thread that is scheduled again and again: the
\* step its position allows is taken when it stays possible
FairSpec == InitFair /\ [][NextFair]_vars /\ WF_vars(ProgramStep)

\* ------------------------------------------------------------------------
\* Properties of the run
\* ------------------------------------------------------------------------
Picked == latest_video # NoPath

\* the six artifact paths of the run
Targets ==
  {work_dir_orig_path, audio_out_path, video_out_path, final_orig_path,
   final_audio_path, final_comp_path}

AllPresentAtStart == Picked /\ \A p \in Targets : fs0[p] # "absent"

NoEncoderRun == \A k \in DOMAIN enc : enc[k] = "not_run"

\* the run is past Step 5a / Step 5b
PastAudio == pc \in {"video", "copy_audio", "copy_video", "done"}
PastVideo == pc \in {"copy_audio", "copy_video", "done"}

\* C1: a run that starts with every target artifact present invokes no
\* encoder, makes no copy, changes no file and does not fail, whatever the
\* three flags are; nothing but a failure stops the steps after the lock
\* wait, so the run gets to the end of run().
C1_RerunDoesNothing ==
  AllPresentAtStart =>
    NoEncoderRun /\ copies = {} /\ fs = fs0 /\ pc # "crashed"

C1_Witness ==
  /\ AllPresentAtStart /\ pc = "done" /\ NoEncoderRun /\ copies = {}
  /\ ~debug_program /\ ~do_skip_audio /\ ~do_skip_video

\* C2: a file that is there stays there with its content: what existed when
\* the run started is unchanged in every state, and no step overwrites or
\* removes a file, be it from before the run or made by an earlier step.
C2_NothingOverwritten ==
  /\ [](\A p \in Paths : fs0[p] # "absent" => fs[p] = fs0[p])
  /\ [][\A p \in Paths : fs[p] # "absent" => fs'[p] = fs[p]]_vars

C2_Witness ==
  /\ pc = "done" /\ Picked
  /\ fs0[final_orig_path] = "old" /\ fs[final_orig_path] = "old"
  /\ fs0[work_dir_orig_path] = "absent" /\ fs[work_dir_orig_path] = "rec"
  /\ fs0[audio_out_path] = "old" /\ fs[final_audio_path] = "old"
  /\ enc["video"] = "ok" /\ fs[final_comp_path] = "h265"

\* C3: in a run without debug mode and with nothing skipped, one encoder
\* failing without output stops neither the other artifact from being encoded
\* and copied nor the run from getting to its end.
C3_EncodeFailureIsolated ==
  (/\ pc \in {"done", "crashed"} /\ Picked
   /\ ~debug_program /\ ~do_skip_audio /\ ~do_skip_video) =>
    /\ (enc["audio"] = "fail" /\ enc["video"] \in {"ok", "not_run"}) =>
          (pc = "done" /\ exists(video_out_path) /\ exists(final_comp_path))
    /\ (enc["video"] = "fail" /\ enc["audio"] \in {"ok", "not_run"}) =>
          (pc = "done" /\ exists(audio_out_path) /\ exists(final_audio_path))

\* the confirmed title and artist are not empty
ProperRecord == clean_title # <<>> /\ album_artist # <<>>

\* C4: an encoder invocation that finds no transcoder does not end the run
\* (stated for runs with a proper title record).
C4_MissingTranscoderTolerated ==
  ProperRecord => \A k \in DOMAIN enc : enc[k] = "missing" => pc # "crashed"

\* C5: in debug mode no copy is made, the only paths that change are the two
\* work-area encoder outputs, and each encoder is invoked exactly when its
\* stage is not skipped and its output was not there.
C5_DebugCopiesNothing ==
  debug_program =>
    /\ copies = {}
    /\ \A p \in Paths : fs[p] # fs0[p] => p \in {audio_out_path, video_out_path}
    /\ \A p \in Paths : fs[p] # fs0[p] => fs[p] \in {"opus", "h265", "part"}
    /\ PastAudio => ((enc["audio"] # "not_run")
                       <=> (~do_skip_audio /\ fs0[audio_out_path] = "absent"))
    /\ PastVideo => ((enc["video"] # "not_run")
                       <=> (~do_skip_video /\ fs0[video_out_path] = "absent"))

C5_Witness ==
  /\ debug_program /\ pc = "done" /\ copies = {}
  /\ enc["audio"] = "ok" /\ enc["video"] = "ok"
  /\ \A p \in {final_orig_path, final_audio_path, final_comp_path} :
       fs[p] = "absent"

\* the compressed-video path was free when Step 5b looked at it
VideoTargetFree ==
  /\ fs0[video_out_path] = "absent"
  /\ ~(~debug_program /\ work_dir_orig_path = video_out_path)

NothingDone == NoEncoderRun /\ copies = {} /\ fs = fs0

\* C7 as claimed: when the picker returns no file the run ends having
\* invoked no encoder, made no copy and written or changed no file (stated
\* for runs with a proper title record).
C7_PickCancelNoEffect ==
  (pc = "exit_pick" /\ ProperRecord) => NothingDone /\ titleFile = titleRead

\* C7: when the picker returns no file the run ends having invoked no
\* encoder, made no copy and changed no artifact; the one file it has written
\* is the title file, which holds the confirmed title and artist as two
\* lines.
C7_PickCancelKeepsArtifacts ==
  pc = "exit_pick" =>
    /\ NothingDone
    /\ ~Picked
    /\ titleFile = File(clean_title \o <<"\n">> \o album_artist \o <<"\n">>)

C7_Witness ==
  /\ pc = "exit_pick" /\ NothingDone /\ ProperRecord
  /\ titleRead = MessyFile /\ titleFile # titleRead

\* C8: when the dialog is cancelled or returns no result, the run ends at
\* once: the title file is as it was read, the picker is never shown, no
\* encoder is invoked and no copy is made.
C8_DialogCancel ==
  ("dialog" \in events /\ dlg \in {NoResult, cancel}) =>
    /\ pc \in {"dialog_returned", "exit_cancel"}
    /\ titleFile = titleRead
    /\ "picker" \notin events
    /\ NothingDone

C8_Witness ==
  /\ pc = "exit_cancel" /\ dlg = cancel /\ titleFile = MessyFile
  /\ "picker" \notin events /\ NothingDone

\* C9: once the title gate has let the run pass, title and artist are not
\* empty and carry no whitespace at either end.
C9_RecordNonEmpty ==
  "confirmed" \in events =>
    /\ clean_title # <<>> /\ album_artist # <<>>
    /\ Strip(clean_title) = clean_title
    /\ Strip(album_artist) = album_artist

\* ------------------------------------------------------------------------
\* Properties of the names
\* ------------------------------------------------------------------------
\* position after a leading year-month-day token of t: four digits, one or
\* more separators, a month of one or two digits, one or more separators, a
\* day of one or two digits; 0 when t begins with no such token
DateTokenEnd(t) ==
  LET s1 == RunLen(t, 5, DateSep)
      nm == RunLen(t, 5 + s1, Digit)
      s2 == RunLen(t, 5 + s1 + nm, DateSep)
      nd == RunLen(t, 5 + s1 + nm + s2, Digit)
  IN IF /\ RunLen(t, 1, Digit) = 4 /\ s1 >= 1 /\ nm \in {1, 2}
        /\ s2 >= 1 /\ nd \in {1, 2}
     THEN 5 + s1 + nm + s2 + nd
     ELSE 0

\* characters that continue a word
WordChars == Digit \cup {"T", "a", "A", "b", "z"}

\* t begins with a date token that ends where the title ends or where a
\* character that is no letter and no digit follows
BeginsWithDateToken(t) ==
  LET e == DateTokenEnd(t)
  IN e > 0 /\ (e > Len(t) \/ t[e] \notin WordChars)

\* t begins with a date token that ends where the title ends or where
\* whitespace follows
BeginsWithDateTokenThenSpace(t) ==
  LET e == DateTokenEnd(t)
  IN e > 0 /\ (e > Len(t) \/ t[e] \in WS)

\* the base name is the sanitized confirmed title, and the year of the title
\* is still at its front
NoPrefixAdded ==
  /\ base_name = get_safe_filename(clean_title)
  /\ AllIn(base_name, 1, 8, Digit)
  /\ SubSeq(base_name, 1, 4) = SubSeq(dlg.title, 1, 4)

StartsLikeDate(t) ==
  \/ AllIn(t, 1, 8, Digit)
  \/ \E a \in {0, 1}, b \in {0, 1} :
       /\ AllIn(t, 1, 4, Digit) /\ AllIn(t, 5, a, DateSep)
       /\ AllIn(t, 5 + a, 2, Digit) /\ AllIn(t, 7 + a, b, DateSep)
       /\ AllIn(t, 7 + a + b, 2, Digit)
  \/ DateTokenEnd(t) > 0

\* the run date as eight digits
ExpectedYmd ==
  IF today = Date1 THEN <<"2", "0", "2", "5", "0", "6", "0", "1">>
  ELSE <<"2", "0", "2", "4", "1", "2", "3", "1">>

\* C11: for every title that does not begin with a date and every run date,
\* the base name is the date as YYYYMMDD, one space, and the sanitized title.
C11_DatePrefixAdded ==
  (pc = "copy_work" /\ ~StartsLikeDate(dlg.title)) =>
    /\ clean_title = dlg.title
    /\ base_name = ExpectedYmd \o <<" ">> \o get_safe_filename(dlg.title)

C11_Witness ==
  /\ pc = "copy_work" /\ today = Date1
  /\ dlg.title = <<"T", ":", " ", "\"", "a", "\"">>
  /\ base_name = <<"2", "0", "2", "5", "0", "6", "0", "1", " ", "T", " ", "a">>

\* the sanitized title the base name was made of
SanitizedTitle ==
  IF StartsLikeDate(clean_title) THEN base_name ELSE From(base_name, 10)

\* C12: sanitizing is idempotent, and what it returns has no reserved
\* character, no two whitespace characters in a row and no whitespace at
\* either end.
C12_SanitizeIdempotent ==
  pc = "copy_work" =>
    LET s == SanitizedTitle
    IN /\ get_safe_filename(s) = s
       /\ \A i \in 1..Len(s) :
            s[i] \notin {"<", ">", ":", "\"", "/", "\\", "|", "?", "*"}
       /\ \A i \in 1..(Len(s) - 1) : ~(s[i] \in WS /\ s[i + 1] \in WS)
       /\ s # <<>> => (s[1] \notin WS /\ s[Len(s)] \notin WS)

C12_Witness ==
  /\ pc = "copy_work"
  /\ dlg.title = <<"a", ":", "\t", "a">>
  /\ SanitizedTitle = <<"a", " ", "a">>

\* ------------------------------------------------------------------------
\* Properties of the run, continued
\* ------------------------------------------------------------------------
\* C13: a run without debug mode that does not skip the video and started
\* with no compressed video in the work folder invokes the video encoder, and
\* what it copies to the compressed-video destination is the encoder's output,
\* never the original recording, whatever the extension of the source is
\* (stated for runs with a proper title record).
C13_CompressedIsEncoded ==
  (/\ pc = "done" /\ Picked /\ ProperRecord
   /\ ~debug_program /\ ~do_skip_video
   /\ fs0[video_out_path] = "absent") =>
    /\ enc["video"] # "not_run"
    /\ <<video_out_path, final_comp_path>> \in copies =>
         fs[final_comp_path] \in {"h265", "part"}

\* C16: a copy of the source or an encoder invocation happens only when the
\* lock check has found the source openable, which happens only after the
\* file was picked, which happens only after the title was confirmed.
C16_LockBeforeRead ==
  /\ (copies # {} \/ ~NoEncoderRun) => ("unlocked" \in events /\ openErr = None)
  /\ "unlocked" \in events => ("picker" \in events /\ Picked)
  /\ "picker" \in events => "confirmed" \in events
  /\ "confirmed" \in events => "dialog" \in events

C16_Witness ==
  /\ pc = "done" /\ ~debug_program
  /\ <<latest_video, final_orig_path>> \in copies
  /\ enc["audio"] = "ok" /\ enc["video"] = "ok"
  /\ events = {"dialog", "confirmed", "picker", "unlocked"}

\* C17: the lock check does not report locked for a picked path that is not
\* there or that may not be opened, so the lock wait does not go on polling
\* it (stated for runs with a proper title record).
C17_LockedOnlyWhenHeld ==
  (/\ pc = "lock_wait" /\ ProperRecord
   /\ openErr \in {"enoent", "eacces"}) => ~is_file_locked(latest_video)

\* the first characters of the lines of text
LineStarts(text) ==
  {b \in 1..Len(text) : b = 1 \/ text[b - 1] = "\n"}

\* the index after the last character of the line that starts at b
LineEnd(text, b) ==
  CHOOSE j \in b..(Len(text) + 1) :
    /\ j = Len(text) + 1 \/ text[j] = "\n"
    /\ \A k \in b..(j - 1) : text[k] # "\n"

\* the characters of the line at b that are not whitespace
InkOf(text, b) == {k \in b..(LineEnd(text, b) - 1) : text[k] \notin WS}

NonBlankStarts(text) == {b \in LineStarts(text) : InkOf(text, b) # {}}

Least(S) == CHOOSE x \in S : \A y \in S : x <= y
Greatest(S) == CHOOSE x \in S : \A y \in S : y <= x

\* the line at b without the whitespace at its ends
TrimmedLine(text, b) ==
  SubSeq(text, Least(InkOf(text, b)), Greatest(InkOf(text, b)))

\* the title file is there with at least two non-blank lines
FileHasTwoNonBlank ==
  titleFile.there /\ Cardinality(NonBlankStarts(titleFile.text)) >= 2

\* C19: a turn of the title loop that finds the file missing or with fewer
\* than two non-blank lines shows no dialog and confirms nothing; and the
\* record the dialog returns when the human changes nothing is the first two
\* non-blank lines of the file as read, trimmed, in file order.
C19_TitleGate ==
  /\ [][(pc = "title_wait" /\ ~FileHasTwoNonBlank) =>
          (pc' = "title_wait" /\ events' = events /\ dlg' = dlg
           /\ titleRead' = titleRead)]_vars
  /\ []((pc = "dialog_returned" /\ Get(dlg, "ok", FALSE)
         /\ Get(dlg, "title", <<>>) # <<>>) =>
          LET text == titleRead.text
              first == Least(NonBlankStarts(text))
              second == Least(NonBlankStarts(text) \ {first})
          IN /\ titleRead.there
             /\ Cardinality(NonBlankStarts(text)) >= 2
             /\ dlg.title = TrimmedLine(text, first)
             /\ dlg.artist = TrimmedLine(text, second))

C19_Witness ==
  /\ pc = "dialog_returned"
  /\ titleRead = MessyFile
  /\ Get(dlg, "ok", FALSE)
  /\ Get(dlg, "title", <<>>) = <<"2", "0", "2", "4", "-", "1", "-", "5", " ", "T">>
  /\ Get(dlg, "artist", <<>>) = <<"A", "b">>

\* C20: no step changes the file that was picked as the source, whatever the
\* flags are and wherever the source is, the work folder included.
C20_SourceNeverWritten ==
  /\ [][Picked => fs'[latest_video] = fs[latest_video]]_vars
  /\ [](Picked => fs[latest_video] = fs0[latest_video])

C20_Witness ==
  /\ pc = "done" /\ ~debug_program
  /\ latest_video = <<WORK_DIR, "mp4">>
  /\ fs[latest_video] = "old"
  /\ enc["audio"] = "ok"
  /\ fs[final_orig_path] = "old" /\ fs0[final_orig_path] = "absent"

\* ------------------------------------------------------------------------
\* Properties of a run that is ended and started again
\* ------------------------------------------------------------------------
\* the copies a run makes when it finds the files f0
CopiesDue(f0) ==
  {c \in {<<latest_video, work_dir_orig_path>>, <<latest_video, final_orig_path>>} :
     ~debug_program /\ f0[c[2]] = "absent"}
    \cup {c \in {<<audio_out_path, final_audio_path>>} :
            ~debug_program /\ ~do_skip_audio /\ f0[c[2]] = "absent"}
    \cup {c \in {<<video_out_path, final_comp_path>>} :
            ~debug_program /\ ~do_skip_video /\ f0[c[2]] = "absent"}

\* the second run got to its end, no encoder of either run failed or was cut
\* short
CleanRerunDone ==
  /\ pc = "done" /\ "killed" \in events
  /\ \A k \in DOMAIN enc : enc[k] \in {"ok", "not_run"}
  /\ \A p \in Paths : fs[p] # "part"

\* C14: a run that follows one ended between two steps, with the same title,
\* date, source and flags, invokes each encoder and makes each copy exactly
\* when its target was missing at the start of that run, and leaves the files
\* that one run which is not ended leaves.
C14_RerunRedoesMissing ==
  CleanRerunDone =>
    /\ enc["audio"] # "not_run" <=>
         (~do_skip_audio /\ fs0[audio_out_path] = "absent")
    /\ enc["video"] # "not_run" <=>
         (~do_skip_video /\ fs0[video_out_path] = "absent")
    /\ copies = CopiesDue(fs0)
    /\ fs = UninterruptedRun(FreshFs)

\* C15: the run that follows one ended in the middle of an encoder invocation
\* finds the truncated output at the target and does not invoke that encoder,
\* and without debug mode it copies the truncated file to the destination
\* that was free.
C15_TruncatedTakenAsDone ==
  /\ "killed_audio" \in events =>
       /\ enc["audio"] = "not_run" /\ fs[audio_out_path] = "part"
       /\ (pc \in {"copy_video", "done"} /\ ~debug_program
           /\ fs0[final_audio_path] = "absent") =>
            /\ <<audio_out_path, final_audio_path>> \in copies
            /\ fs[final_audio_path] = "part"
  /\ "killed_video" \in events =>
       /\ enc["video"] = "not_run" /\ fs[video_out_path] = "part"
       /\ (pc = "done" /\ ~debug_program
           /\ fs0[final_comp_path] = "absent") =>
            /\ <<video_out_path, final_comp_path>> \in copies
            /\ fs[final_comp_path] = "part"

C15_Witness ==
  /\ pc = "done" /\ "killed_video" \in events /\ ~debug_program
  /\ enc["video"] = "not_run" /\ enc["audio"] = "ok"
  /\ fs0[final_comp_path] = "absent" /\ fs[final_comp_path] = "part"

\* ------------------------------------------------------------------------
\* Properties of the waits
\* ------------------------------------------------------------------------
\* no other process holds the picked source
SourceNotHeld == Picked /\ openErr # "sharing"

\* C18: when the title file has two non-blank lines from some time on, the
\* dialog is shown at some time; when the picked source is held by no other
\* process from some time on, the lock wait ends at some time; and neither
\* wait ends in a state where its condition is false (stated for runs with a
\* proper title record).
C18_WaitsEnd ==
  /\ (<>[]FileHasTwoNonBlank) => <>("dialog" \in events)
  /\ (<>[](SourceNotHeld /\ ProperRecord)) => <>("unlocked" \in events)
  /\ [][(pc = "title_wait" /\ pc' # "title_wait") => FileHasTwoNonBlank]_vars
  /\ [][(pc = "lock_wait" /\ pc' # "lock_wait") => SourceNotHeld]_vars

\* The waits end for a source that can be opened: as C18, with the lock wait
\* required to end only when open() succeeds on the source from some time on.
WaitsEndWhenOpenable ==
  /\ (<>[]FileHasTwoNonBlank) => <>("dialog" \in events)
  /\ (<>[](Picked /\ openErr = None)) => <>("unlocked" \in events)
  /\ [][(pc = "title_wait" /\ pc' # "title_wait") => FileHasTwoNonBlank]_vars
  /\ [][(pc = "lock_wait" /\ pc' # "lock_wait") => openErr = None]_vars

====
